---- MODULE Spec2Model ----
(***************************************************************************)
(* Model of the DKSV club-finance dashboard (stephenomo/Newapp1):          *)
(*   Newapp/database.py  the ledger store (PostgreSQL through SQLAlchemy)  *)
(*   Newapp/auth.py      the credential store (SQLite) and its two forms   *)
(*   Newapp/app.py       the Streamlit handlers calling both               *)
(*                                                                         *)
(* Money is counted in cents: a raw input of 0.60 is 60, a stored amount   *)
(* of 0.01 is 1.  Text that the code inspects character by character       *)
(* (deletion reasons, usernames, emails) is a sequence of one-character    *)
(* strings; other text is a TLA+ string.                                   *)
(***************************************************************************)
EXTENDS Integers, Sequences, FiniteSets, TLC

VARIABLES
    contributions,          \* table contributions: set of rows
    special_projects,       \* table special_projects
    special_contributions,  \* table special_contributions
    project_income,         \* table project_income
    deletion_logs,          \* table deletion_logs
    seq,                    \* the SERIAL sequence of each table (last value given out)
    users,                  \* table users of users.db, in rowid order
    session,                \* st.session_state of the browser session using the ledger
    reg,                    \* register_user_ui runs between user_exists and save_user_to_db
    tx,                     \* open store transactions, one per connection
    created,                \* history: every (record_type, id) ever inserted
    last                    \* history: the last handler run, its inputs and its store call

ledgerTables == <<contributions, special_projects, special_contributions,
                  project_income, deletion_logs>>
vars == <<contributions, special_projects, special_contributions, project_income,
          deletion_logs, seq, users, session, reg, tx, created, last>>

(***************************************************************************)
(* Bounds of the model.                                                    *)
(***************************************************************************)
MaxInserts == 3      \* rows inserted into the four ledger tables, in total
MaxTxCalls == 2      \* delete calls that reach their INSERT, in the transaction view

DIVISOR == 120

Tables == {"contributions", "special_projects", "special_contributions",
           "project_income", "deletion_logs"}

\* Raw amounts typed into the st.number_input(min_value=0.0) of each form, in
\* cents: nothing, an amount that scales to less than half a cent (0.50), an
\* amount that scales to exactly half a cent (0.60) and a plain one (12.00).
ContributionAmounts == {0, 50, 60}
TargetAmounts == {0, 1200}
SpecialAmounts == {0, 60}
IncomeAmounts == {0, 50, 1200}
\* Text typed into the deletion-reason text areas.
ReasonInputs == { <<>>, <<" ">>, <<" ", "\t">>, <<" ", "x", " ">> }

(***************************************************************************)
(* Pure helpers.                                                           *)
(***************************************************************************)
\* str.strip(): leading and trailing whitespace removed.
IsSpace(c) == c \in {" ", "\t", "\n"}

RECURSIVE lstrip(_)
lstrip(s) == IF s = <<>> THEN s
             ELSE IF IsSpace(Head(s)) THEN lstrip(Tail(s)) ELSE s

RECURSIVE rstrip(_)
rstrip(s) == IF s = <<>> THEN s
             ELSE IF IsSpace(s[Len(s)]) THEN rstrip(SubSeq(s, 1, Len(s) - 1)) ELSE s

strip(s) == rstrip(lstrip(s))

\* Raw inputs c (cents) below 1000 with c / 100 / 120 exactly halfway between two
\* cents, for which IEEE-754 double division and Python's round(x, 2) give the
\* upper cent (0.60 / 120 -> 0.01, 1.80 / 120 -> 0.02, ...; 9.00 / 120 -> 0.07).
\* ScaledAmount below is exact for every raw input that is not such a tie and
\* for the ties below 1000.
TiesRoundedUp == {60, 180, 300, 420, 540, 660, 780}

\* round(amount_raw / DIVISOR, 2), in cents.
ScaledAmountRaw(amount_raw) == amount_raw

ScaledAmount(amount_raw) ==
    LET q == amount_raw \div DIVISOR
        r == amount_raw % DIVISOR
    IN  IF 2 * r > DIVISOR THEN q + 1
        ELSE IF 2 * r < DIVISOR THEN q
        ELSE IF amount_raw \in TiesRoundedUp THEN q + 1 ELSE q

\* SUM(amount) over a set of rows.
RECURSIVE SumAmount(_)
SumAmount(rows) ==
    IF rows = {} THEN 0
    ELSE LET r == CHOOSE x \in rows : TRUE
         IN  r.amount + SumAmount(rows \ {r})

\* The row a pandas .loc[label == selected, "id"].iloc[0] picks from a frame
\* ordered newest first: the newest row carrying the selected label.
MaxId(rows) == CHOOSE i \in {r.id : r \in rows} : \A r \in rows : r.id <= i

(***************************************************************************)
(* database.py: the ledger store.  Each function below is one transaction  *)
(* (with engine.begin()), committed when the block ends.                   *)
(***************************************************************************)
\* Rows inserted so far into the four ledger tables (the model's cap).
TotalInserts == seq["contributions"] + seq["special_projects"]
                + seq["special_contributions"] + seq["project_income"]

\* INSERT INTO deletion_logs (record_type, record_id, deleted_by, reason)
LogRowWrongType(log_id, record_type, record_id, deleted_by, reason) ==
    [id |-> log_id, record_type |-> "contribution", record_id |-> record_id,
     deleted_by |-> deleted_by, reason |-> reason]

LogRow(log_id, record_type, record_id, deleted_by, reason) ==
    [id |-> log_id, record_type |-> record_type, record_id |-> record_id,
     deleted_by |-> deleted_by, reason |-> reason]

\* DELETE FROM <table> WHERE id = :id
RowsAfterDeleteKeepsRow(table, id) == table

RowsAfterDelete(table, id) == {r \in table : r.id # id}

add_contribution(member, amount, month) ==
    /\ TotalInserts < MaxInserts
    /\ LET id == seq["contributions"] + 1
       IN  /\ contributions' = contributions \cup
                 {[id |-> id, member |-> member, amount |-> amount, month |-> month]}
           /\ seq' = [seq EXCEPT !["contributions"] = id]
           /\ created' = created \cup {<<"contribution", id>>}
    /\ UNCHANGED <<special_projects, special_contributions, project_income,
                   deletion_logs>>

get_all_contributions == contributions

delete_contribution_with_reason(entry_id, deleted_by, reason) ==
    /\ deletion_logs' = deletion_logs \cup
          {LogRow(seq["deletion_logs"] + 1, "contribution", entry_id, deleted_by, reason)}
    /\ contributions' = RowsAfterDelete(contributions, entry_id)
    /\ seq' = [seq EXCEPT !["deletion_logs"] = @ + 1]
    /\ UNCHANGED <<special_projects, special_contributions, project_income, created>>

create_special_project(name, desc, target, deadline) ==
    /\ TotalInserts < MaxInserts
    /\ LET id == seq["special_projects"] + 1
       IN  /\ special_projects' = special_projects \cup
                 {[id |-> id, project_name |-> name, description |-> desc,
                   target_amount |-> target, deadline |-> deadline,
                   status |-> "active"]}
           /\ seq' = [seq EXCEPT !["special_projects"] = id]
    /\ UNCHANGED <<contributions, special_contributions, project_income,
                   deletion_logs, created>>

get_all_special_projects == special_projects

\* The INSERT aborts on the foreign key when the project does not exist.
add_special_project_contribution(project_id, name, amount, notes) ==
    /\ TotalInserts < MaxInserts
    /\ \E p \in special_projects : p.id = project_id
    /\ LET id == seq["special_contributions"] + 1
       IN  /\ special_contributions' = special_contributions \cup
                 {[id |-> id, project_id |-> project_id, name |-> name,
                   amount |-> amount, notes |-> notes]}
           /\ seq' = [seq EXCEPT !["special_contributions"] = id]
           /\ created' = created \cup {<<"special_contribution", id>>}
    /\ UNCHANGED <<contributions, special_projects, project_income, deletion_logs>>

get_special_project_contributions(project_id) ==
    {r \in special_contributions : r.project_id = project_id}

delete_special_contribution_with_reason(contrib_id, deleted_by, reason) ==
    /\ deletion_logs' = deletion_logs \cup
          {LogRow(seq["deletion_logs"] + 1, "special_contribution", contrib_id,
                  deleted_by, reason)}
    /\ special_contributions' = RowsAfterDelete(special_contributions, contrib_id)
    /\ seq' = [seq EXCEPT !["deletion_logs"] = @ + 1]
    /\ UNCHANGED <<contributions, special_projects, project_income, created>>

add_project_income(project_id, source, amount, notes) ==
    /\ TotalInserts < MaxInserts
    /\ \E p \in special_projects : p.id = project_id
    /\ LET id == seq["project_income"] + 1
       IN  /\ project_income' = project_income \cup
                 {[id |-> id, project_id |-> project_id, source |-> source,
                   amount |-> amount, notes |-> notes]}
           /\ seq' = [seq EXCEPT !["project_income"] = id]
           /\ created' = created \cup {<<"project_income", id>>}
    /\ UNCHANGED <<contributions, special_projects, special_contributions,
                   deletion_logs>>

get_project_income(project_id) == {r \in project_income : r.project_id = project_id}

delete_project_income_with_reason(income_id, deleted_by, reason) ==
    /\ deletion_logs' = deletion_logs \cup
          {LogRow(seq["deletion_logs"] + 1, "project_income", income_id,
                  deleted_by, reason)}
    /\ project_income' = RowsAfterDelete(project_income, income_id)
    /\ seq' = [seq EXCEPT !["deletion_logs"] = @ + 1]
    /\ UNCHANGED <<contributions, special_projects, special_contributions, created>>

\* SELECT SUM(amount): NULL (the empty set here) over no rows, else {sum}.
SqlSum(rows) == IF rows = {} THEN {} ELSE {SumAmount(rows)}

COALESCE(x, default) == IF x = {} THEN default ELSE CHOOSE v \in x : TRUE

get_project_financial_summaryAllRows(project_id) ==
    LET contrib == COALESCE(SqlSum(special_contributions), 0)
        income == COALESCE(SqlSum(project_income), 0)
    IN  [contributions |-> contrib, income |-> income, total |-> contrib + income]

get_project_financial_summary(project_id) ==
    LET contrib == COALESCE(SqlSum({r \in special_contributions :
                                        r.project_id = project_id}), 0)
        income == COALESCE(SqlSum({r \in project_income :
                                       r.project_id = project_id}), 0)
    IN  [contributions |-> contrib, income |-> income, total |-> contrib + income]

(***************************************************************************)
(* auth.py: the credential store.  users is the table in rowid order; no   *)
(* statement deletes a row, so rowid order is insertion order.             *)
(***************************************************************************)
\* Usernames and emails typed into the forms (<<>> is an empty field).
UsernameInputs == { <<>>, <<"a">>, <<"A">>, <<"b">> }
RegisterEmails == { <<"x">>, <<"y">> }
ResetEmails == { <<>>, <<"x">>, <<"X">>, <<"y">> }
\* The (password, confirmation) pairs typed into the two forms.
RegisterPasswords == { <<"", "">>, <<"secret1", "secret2">>, <<"short", "short">>,
                       <<"secret1", "secret1">> }
ResetPasswords == { <<"", "">>, <<"secret2", "secret1">>, <<"secret2", "secret2">> }
Sessions == { "s1", "s2" }

\* SQL LOWER() on ASCII text.
LowerChar(c) ==
    CASE c = "A" -> "a" [] c = "B" -> "b" [] c = "X" -> "x" [] c = "Y" -> "y"
      [] OTHER -> c

LOWER(s) == [i \in 1..Len(s) |-> LowerChar(s[i])]

\* bcrypt.hashpw(pw.encode(), bcrypt.gensalt()).decode(); the salt is left out.
Hash(pw) == <<"bcrypt", pw>>

\* SELECT role FROM users WHERE LOWER(username) = LOWER(?), fetchone():
\* SQLite scans the table in rowid order, so the oldest matching row answers.
get_user_role(username) ==
    LET hits == {i \in DOMAIN users : LOWER(users[i].username) = LOWER(username)}
    IN  IF hits = {} THEN "None"
        ELSE users[CHOOSE i \in hits : \A j \in hits : i <= j].role

get_user_count == Len(users)

user_exists(username) == \E i \in DOMAIN users : users[i].username = username

\* role = "admin" if user_count == 0 else "viewer"
RoleForCountUpToOne(user_count) == IF user_count <= 1 THEN "admin" ELSE "viewer"

RoleForCount(user_count) == IF user_count = 0 THEN "admin" ELSE "viewer"

\* The INSERT of save_user_to_db on a table without the username.
UsersAfterInsert(username, name, hashed_password, email) ==
    Append(users, [username |-> username, name |-> name,
                   password |-> hashed_password, email |-> email,
                   role |-> RoleForCount(Len(users))])

\* The users table after save_user_to_db: the PRIMARY KEY raises IntegrityError
\* on an equal username, nothing is committed and the function returns False.
UsersAfterSaveReplacing(username, name, hashed_password, email) ==
    IF \E i \in DOMAIN users : users[i].username = username
    THEN [i \in DOMAIN users |->
             IF users[i].username = username
             THEN [username |-> username, name |-> name,
                   password |-> hashed_password, email |-> email,
                   role |-> RoleForCount(Len(users))]
             ELSE users[i]]
    ELSE UsersAfterInsert(username, name, hashed_password, email)

UsersAfterSave(username, name, hashed_password, email) ==
    IF \E i \in DOMAIN users : users[i].username = username
    THEN users
    ELSE UsersAfterInsert(username, name, hashed_password, email)

save_user_to_db_returns(username) ==
    ~ \E i \in DOMAIN users : users[i].username = username

\* UPDATE users SET password = ? WHERE LOWER(username) = LOWER(?)
UsersAfterUpdatePasswordAndRole(username, new_password) ==
    [i \in DOMAIN users |->
        IF LOWER(users[i].username) = LOWER(username)
        THEN [users[i] EXCEPT !.password = Hash(new_password), !.role = "viewer"]
        ELSE users[i]]

UsersAfterUpdatePassword(username, new_password) ==
    [i \in DOMAIN users |->
        IF LOWER(users[i].username) = LOWER(username)
        THEN [users[i] EXCEPT !.password = Hash(new_password)]
        ELSE users[i]]

update_password_returns(username) ==
    \E i \in DOMAIN users : LOWER(users[i].username) = LOWER(username)

\* SELECT COUNT(*) ... WHERE LOWER(username)=LOWER(?) AND LOWER(email)=LOWER(?)
verify_user_emailUsernameOnly(username, email) ==
    \E i \in DOMAIN users : LOWER(users[i].username) = LOWER(username)

verify_user_email(username, email) ==
    \E i \in DOMAIN users :
        /\ LOWER(users[i].username) = LOWER(username)
        /\ LOWER(users[i].email) = LOWER(email)

IdleReg == [pc |-> "idle", username |-> <<>>, name |-> "", hashed |-> <<>>,
            email |-> <<>>]

AuthRun(op, outcome) == [op |-> op, outcome |-> outcome]

\* register_user_ui, from the submit to the hashing (auth.py:251-268): the
\* st.error shown, or "hashed" when every check passes.
RegisterSubmitMessage(username, name, email, pw1, pw2) ==
    IF username = <<>> \/ name = "" \/ email = <<>> \/ pw1 = "" \/ pw2 = ""
    THEN "fill all fields"
    ELSE IF pw1 # pw2 THEN "passwords do not match"
    ELSE IF Len(pw1) < 6 THEN "password too short"
    ELSE IF user_exists(username) THEN "username already exists"
    ELSE "hashed"

RegisterSubmit(s, username, name, email, pw1, pw2) ==
    /\ reg[s].pc = "idle"
    /\ LET message == RegisterSubmitMessage(username, name, email, pw1, pw2)
       IN  /\ last' = AuthRun("register", message)
           /\ reg' = IF message = "hashed"
                     THEN [reg EXCEPT ![s] =
                              [pc |-> "save", username |-> username, name |-> name,
                               hashed |-> Hash(pw1), email |-> email]]
                     ELSE reg
    /\ UNCHANGED <<ledgerTables, seq, users, session, tx, created>>

\* register_user_ui, the save_user_to_db call and its outcome (auth.py:270-279).
RegisterSaveMessage(username) ==
    IF save_user_to_db_returns(username) THEN "registered" ELSE "registration failed"

RegisterSave(s) ==
    /\ reg[s].pc = "save"
    /\ users' = UsersAfterSave(reg[s].username, reg[s].name, reg[s].hashed,
                               reg[s].email)
    /\ last' = AuthRun("register", RegisterSaveMessage(reg[s].username))
    /\ reg' = [reg EXCEPT ![s] = IdleReg]
    /\ UNCHANGED <<ledgerTables, seq, session, tx, created>>

\* reset_password_ui (auth.py:298-315): the message shown ...
ResetMessage(username, email, pw1, pw2) ==
    IF username = <<>> \/ email = <<>> \/ pw1 = "" \/ pw2 = ""
    THEN "fill all fields"
    ELSE IF pw1 # pw2 THEN "passwords do not match"
    ELSE IF ~ verify_user_email(username, email) THEN "do not match our records"
    ELSE IF update_password_returns(username) THEN "password updated"
    ELSE "reset failed"

\* ... and the users table it leaves: update_password runs once the three
\* checks have passed.
UsersAfterReset(username, email, pw1, pw2) ==
    IF ResetMessage(username, email, pw1, pw2) \in {"password updated", "reset failed"}
    THEN UsersAfterUpdatePassword(username, pw1)
    ELSE users

ResetPassword(username, email, pw1, pw2) ==
    /\ users' = UsersAfterReset(username, email, pw1, pw2)
    /\ last' = AuthRun("reset", ResetMessage(username, email, pw1, pw2))
    /\ UNCHANGED <<ledgerTables, seq, session, reg, tx, created>>

(***************************************************************************)
(* app.py: the handlers of one script run.  df, projects_df, contrib_df    *)
(* and income_df are read at the start of the run that handles the click.  *)
(***************************************************************************)
\* user_role = get_user_role(username) or "viewer"   (app.py:102)
user_role ==
    LET r == get_user_role(session.username)
    IN  IF r = "None" THEN "viewer" ELSE r

LedgerRun(op, outcome, raw, amount, id, texts, reason) ==
    [op |-> op, outcome |-> outcome, raw |-> raw, amount |-> amount, id |-> id,
     texts |-> texts, reason |-> reason]

\* The selectbox labels (the amount is printed with two decimals).
ContributionLabel(r) == <<r.member, r.month, r.amount>>
SpecialContributionLabel(r) == <<r.name, r.amount>>
IncomeLabel(r) == <<r.source, r.amount>>

\* if not reason.strip(): st.error("Please provide a reason.")
ReasonMissingUnstripped(reason) == reason = <<>>

ReasonMissing(reason) == strip(reason) = <<>>

\* add_contribution_form (app.py:117-128)
AddContributionForm(member_name, amount_raw, month) ==
    /\ user_role = "admin"
    /\ IF member_name = "" \/ month = "" \/ amount_raw <= 0
       THEN /\ last' = LedgerRun("add_contribution", "rejected", amount_raw, 0, 0,
                                 {member_name, month}, <<>>)
            /\ UNCHANGED <<ledgerTables, seq, created>>
       ELSE LET amount == ScaledAmount(amount_raw)
            IN  /\ add_contribution(member_name, amount, month)
                /\ last' = LedgerRun("add_contribution", "stored", amount_raw, amount,
                                     seq'["contributions"], {member_name, month}, <<>>)
    /\ UNCHANGED <<users, session, reg, tx>>

\* Delete Contribution (app.py:132-146)
DeleteContributionEntry(selected, reason) ==
    /\ user_role = "admin"
    /\ LET df == get_all_contributions
       IN  /\ df # {}
           /\ selected \in {ContributionLabel(r) : r \in df}
           /\ IF ReasonMissing(reason)
              THEN /\ last' = LedgerRun("delete_contribution", "rejected", 0, 0, 0,
                                        {}, reason)
                   /\ UNCHANGED <<ledgerTables, seq, created>>
              ELSE LET entry_id == MaxId({r \in df : ContributionLabel(r) = selected})
                   IN  /\ delete_contribution_with_reason(entry_id, session.username,
                                                          reason)
                       /\ last' = LedgerRun("delete_contribution", "deleted", 0, 0,
                                            entry_id, {}, reason)
    /\ UNCHANGED <<users, session, reg, tx>>

\* create_project_form (app.py:219-234)
CreateProjectForm(proj_name, proj_desc, proj_target_raw, proj_deadline) ==
    /\ user_role = "admin"
    /\ IF proj_name = "" \/ proj_target_raw <= 0
       THEN /\ last' = LedgerRun("create_project", "rejected", proj_target_raw, 0, 0,
                                 {proj_name}, <<>>)
            /\ UNCHANGED <<ledgerTables, seq, created>>
       ELSE LET proj_target == ScaledAmount(proj_target_raw)
            IN  /\ create_special_project(proj_name, proj_desc, proj_target,
                                          proj_deadline)
                /\ last' = LedgerRun("create_project", "stored", proj_target_raw,
                                     proj_target, seq'["special_projects"],
                                     {proj_name}, <<>>)
    /\ UNCHANGED <<users, session, reg, tx>>

\* add_contrib_<project id> (app.py:254-264): no check of the inputs.
AddSpecialContributionForm(project_id, name, amount_raw, notes) ==
    /\ user_role = "admin"
    /\ project_id \in {p.id : p \in get_all_special_projects}
    /\ LET amount == ScaledAmount(amount_raw)
       IN  /\ add_special_project_contribution(project_id, name, amount, notes)
           /\ last' = LedgerRun("add_special_contribution", "stored", amount_raw,
                                amount, seq'["special_contributions"], {name}, <<>>)
    /\ UNCHANGED <<users, session, reg, tx>>

\* Delete Contribution of a project (app.py:271-297)
DeleteSpecialContribution(project_id, selected, reason) ==
    /\ user_role = "admin"
    /\ project_id \in {p.id : p \in get_all_special_projects}
    /\ LET contrib_df == get_special_project_contributions(project_id)
       IN  /\ contrib_df # {}
           /\ selected \in {SpecialContributionLabel(r) : r \in contrib_df}
           /\ IF ReasonMissing(reason)
              THEN /\ last' = LedgerRun("delete_special_contribution", "rejected",
                                        0, 0, 0, {}, reason)
                   /\ UNCHANGED <<ledgerTables, seq, created>>
              ELSE LET contrib_id ==
                           MaxId({r \in contrib_df :
                                     SpecialContributionLabel(r) = selected})
                   IN  /\ delete_special_contribution_with_reason(
                              contrib_id, session.username, reason)
                       /\ last' = LedgerRun("delete_special_contribution", "deleted",
                                            0, 0, contrib_id, {}, reason)
    /\ UNCHANGED <<users, session, reg, tx>>

\* add_income_<project id> (app.py:300-310): no check of the inputs.
AddIncomeForm(project_id, source, amount_raw, notes) ==
    /\ user_role = "admin"
    /\ project_id \in {p.id : p \in get_all_special_projects}
    /\ LET amount == ScaledAmount(amount_raw)
       IN  /\ add_project_income(project_id, source, amount, notes)
           /\ last' = LedgerRun("add_project_income", "stored", amount_raw, amount,
                                seq'["project_income"], {source}, <<>>)
    /\ UNCHANGED <<users, session, reg, tx>>

\* Delete Income (app.py:317-343)
DeleteIncome(project_id, selected, reason) ==
    /\ user_role = "admin"
    /\ project_id \in {p.id : p \in get_all_special_projects}
    /\ LET income_df == get_project_income(project_id)
       IN  /\ income_df # {}
           /\ selected \in {IncomeLabel(r) : r \in income_df}
           /\ IF ReasonMissing(reason)
              THEN /\ last' = LedgerRun("delete_project_income", "rejected",
                                        0, 0, 0, {}, reason)
                   /\ UNCHANGED <<ledgerTables, seq, created>>
              ELSE LET income_id ==
                           MaxId({r \in income_df : IncomeLabel(r) = selected})
                   IN  /\ delete_project_income_with_reason(
                              income_id, session.username, reason)
                       /\ last' = LedgerRun("delete_project_income", "deleted",
                                            0, 0, income_id, {}, reason)
    /\ UNCHANGED <<users, session, reg, tx>>

\* EXPECTED_PER_MEMBER = 1000 / 120.0 (config.py:3), kept exact as the fraction
\* <<numerator in cents, denominator>>: 833.33... cents.
EXPECTED_PER_MEMBER == <<100000, 120>>

\* row["amount"] < EXPECTED_PER_MEMBER, for an amount in cents.  Sums of cent
\* amounts are at least a third of a cent away from the threshold, far more
\* than the error of the float additions, so the integer comparison is exact.
BelowExpected(amount) == amount * EXPECTED_PER_MEMBER[2] < EXPECTED_PER_MEMBER[1]

\* df.groupby(["month", "member"], as_index=False)["amount"].sum()
monthly_groupByMember(df) ==
    {[month |-> r.month, member |-> r.member,
      amount |-> SumAmount({x \in df : x.member = r.member})] : r \in df}

monthly_group(df) ==
    {[month |-> r.month, member |-> r.member,
      amount |-> SumAmount({x \in df : x.month = r.month /\ x.member = r.member})] :
       r \in df}

\* The warnings list of the Monthly Expected Contribution Check
\* (app.py:174-180): member, summed amount and month of each flagged group.
warnings(df) ==
    {[member |-> row.member, amount |-> row.amount, month |-> row.month] :
       row \in {g \in monthly_group(df) : BelowExpected(g.amount)}}

(***************************************************************************)
(* The ledger specification: one admin session working through the forms.  *)
(***************************************************************************)
EmptyLedger ==
    /\ contributions = {}
    /\ special_projects = {}
    /\ special_contributions = {}
    /\ project_income = {}
    /\ deletion_logs = {}
    /\ seq = [t \in Tables |-> 0]
    /\ created = {}

IdleTx == [pc |-> "idle", record_type |-> "", id |-> 0, deleted_by |-> <<>>,
           reason |-> <<>>, log |-> {}, found |-> FALSE]

\* The first registrant (admin) is logged in; init_db() has created empty tables.
Init ==
    /\ EmptyLedger
    /\ users = << [username |-> <<"a">>, name |-> "Ann", password |-> Hash("secret1"),
                   email |-> <<"x">>, role |-> RoleForCount(0)] >>
    /\ session = [authentication_status |-> TRUE, username |-> <<"a">>, name |-> "Ann"]
    /\ reg = [s \in Sessions |-> IdleReg]
    /\ tx = [s \in Sessions |-> IdleTx]
    /\ last = LedgerRun("none", "none", 0, 0, 0, {}, <<>>)

MemberInputs == {"", "Alice"}
MonthInputs == {"", "Jan"}
ProjectNameInputs == {"", "Hall"}
ContributorInputs == {"", "Carol"}
SourceInputs == {"", "Raffle"}

Next ==
    \/ \E m \in MemberInputs, a \in ContributionAmounts, mo \in MonthInputs :
          AddContributionForm(m, a, mo)
    \/ \E sel \in {ContributionLabel(r) : r \in contributions}, re \in ReasonInputs :
          DeleteContributionEntry(sel, re)
    \/ \E n \in ProjectNameInputs, a \in TargetAmounts :
          CreateProjectForm(n, "", a, "2025-01-31")
    \/ \E pid \in 1..MaxInserts, n \in ContributorInputs, a \in SpecialAmounts :
          AddSpecialContributionForm(pid, n, a, "")
    \/ \E pid \in 1..MaxInserts,
          sel \in {SpecialContributionLabel(r) : r \in special_contributions},
          re \in ReasonInputs :
          DeleteSpecialContribution(pid, sel, re)
    \/ \E pid \in 1..MaxInserts, n \in SourceInputs, a \in IncomeAmounts :
          AddIncomeForm(pid, n, a, "")
    \/ \E pid \in 1..MaxInserts,
          sel \in {IncomeLabel(r) : r \in project_income},
          re \in ReasonInputs :
          DeleteIncome(pid, sel, re)

Spec == Init /\ [][Next]_vars

(***************************************************************************)
(* The monthly specification: the admin session fills the contributions    *)
(* table for two members and two months, with raw amounts that are stored  *)
(* as 3.00, 4.16 and 4.17, so that group sums fall on both sides of the     *)
(* expected amount (8.33 and 8.34 among them); every script run renders    *)
(* the Monthly Expected Contribution Check from df.                        *)
(***************************************************************************)
ShortfallMembers == {"Alice", "Bob"}
ShortfallMonths == {"Jan", "Feb"}
ShortfallAmounts == {36000, 49920, 50040}

MonthlyNext ==
    \/ \E m \in ShortfallMembers, a \in ShortfallAmounts, mo \in ShortfallMonths :
          AddContributionForm(m, a, mo)
    \/ \E sel \in {ContributionLabel(r) : r \in contributions} :
          DeleteContributionEntry(sel, <<"x">>)

MonthlySpec == Init /\ [][MonthlyNext]_vars

(***************************************************************************)
(* The credential specification: the two forms of auth.py used from        *)
(* several browser sessions on an empty users.db.                          *)
(***************************************************************************)
AuthInit ==
    /\ EmptyLedger
    /\ users = <<>>
    /\ session = [authentication_status |-> FALSE, username |-> <<>>, name |-> ""]
    /\ reg = [s \in Sessions |-> IdleReg]
    /\ tx = [s \in Sessions |-> IdleTx]
    /\ last = AuthRun("none", "none")

AuthNext ==
    \/ \E s \in Sessions, u \in UsernameInputs, e \in RegisterEmails,
          pw \in RegisterPasswords :
          RegisterSubmit(s, u, "Ann", e, pw[1], pw[2])
    \/ \E s \in Sessions : RegisterSave(s)
    \/ \E u \in UsernameInputs, e \in ResetEmails, pw \in ResetPasswords :
          ResetPassword(u, e, pw[1], pw[2])

AuthSpec == AuthInit /\ [][AuthNext]_vars

(***************************************************************************)
(* The statement view of save_user_to_db: each call opens its own SQLite   *)
(* connection; the SELECT COUNT runs outside any transaction and its read *)
(* lock is gone when the statement ends, the INSERT opens the transaction  *)
(* that conn.commit() ends.  Calls of different sessions (Streamlit runs   *)
(* each session's script in a thread of its own) interleave between the    *)
(* two statements.                                                         *)
(***************************************************************************)
\* cursor.execute("SELECT COUNT(*) FROM users"); user_count = fetchone()[0]
save_user_to_dbCount(s) ==
    /\ reg[s].pc = "save"
    /\ reg' = [reg EXCEPT ![s] =
                  [pc |-> "counted", username |-> reg[s].username,
                   name |-> reg[s].name, hashed |-> reg[s].hashed,
                   email |-> reg[s].email, user_count |-> get_user_count]]
    /\ last' = AuthRun("register", "counted")
    /\ UNCHANGED <<ledgerTables, seq, users, session, tx, created>>

\* role = ...; INSERT; conn.commit(); return True -- or IntegrityError on an
\* equal username, return False -- and the message of register_user_ui.
save_user_to_dbInsert(s) ==
    /\ reg[s].pc = "counted"
    /\ IF user_exists(reg[s].username)
       THEN /\ users' = users
            /\ last' = AuthRun("register", "registration failed")
       ELSE /\ users' = Append(users,
                            [username |-> reg[s].username, name |-> reg[s].name,
                             password |-> reg[s].hashed, email |-> reg[s].email,
                             role |-> RoleForCount(reg[s].user_count)])
            /\ last' = AuthRun("register", "registered")
    /\ reg' = [reg EXCEPT ![s] = IdleReg]
    /\ UNCHANGED <<ledgerTables, seq, session, tx, created>>

SaveNext ==
    \/ \E s \in Sessions, u \in UsernameInputs, e \in RegisterEmails,
          pw \in RegisterPasswords :
          RegisterSubmit(s, u, "Ann", e, pw[1], pw[2])
    \/ \E s \in Sessions : save_user_to_dbCount(s)
    \/ \E s \in Sessions : save_user_to_dbInsert(s)

SaveSpec == AuthInit /\ [][SaveNext]_vars

(***************************************************************************)
(* The transaction view of database.py: a delete_*_with_reason call is     *)
(*     with engine.begin() as conn:       BEGIN                            *)
(*         conn.execute(INSERT ...)       statement 1                      *)
(*         conn.execute(DELETE ...)       statement 2                      *)
(*                                        COMMIT, or ROLLBACK on exception *)
(* run on one pooled connection per caller against PostgreSQL (READ        *)
(* COMMITTED).  The ledger tables hold the committed rows; tx[s] holds     *)
(* what connection s has written and not yet committed.                    *)
(***************************************************************************)
RecordTypes == {"contribution", "special_contribution", "project_income"}

TableOf(record_type) ==
    CASE record_type = "contribution" -> contributions
      [] record_type = "special_contribution" -> special_contributions
      [] record_type = "project_income" -> project_income

StoreRun(op, outcome) == [op |-> op, outcome |-> outcome]  \* history only

\* The committed deletion_logs after statement 1 of an open transaction.
CommittedLogsAfterInsertAutocommit(row) == deletion_logs \cup {row}

CommittedLogsAfterInsert(row) == deletion_logs

\* with engine.begin() as conn:
TxBegin(s, record_type, id, deleted_by, reason) ==
    /\ tx[s].pc = "idle"
    /\ seq["deletion_logs"] + Cardinality({t \in Sessions : tx[t].pc = "begun"})
          < MaxTxCalls
    /\ tx' = [tx EXCEPT ![s] = [pc |-> "begun", record_type |-> record_type,
                                id |-> id, deleted_by |-> deleted_by,
                                reason |-> reason, log |-> {}, found |-> FALSE]]
    /\ last' = StoreRun("delete_with_reason", "begin")
    /\ UNCHANGED <<ledgerTables, seq, users, session, reg, created>>

\* conn.execute(INSERT INTO deletion_logs ...): the sequence moves at once and
\* for good, the row stays private to the transaction.
TxInsertLog(s) ==
    /\ tx[s].pc = "begun"
    /\ LET row == LogRow(seq["deletion_logs"] + 1, tx[s].record_type, tx[s].id,
                         tx[s].deleted_by, tx[s].reason)
       IN  /\ tx' = [tx EXCEPT ![s].pc = "logged", ![s].log = {row}]
           /\ deletion_logs' = CommittedLogsAfterInsert(row)
    /\ seq' = [seq EXCEPT !["deletion_logs"] = @ + 1]
    /\ last' = StoreRun("delete_with_reason", "insert")
    /\ UNCHANGED <<contributions, special_projects, special_contributions,
                   project_income, users, session, reg, created>>

\* conn.execute(DELETE FROM <table> WHERE id = :id): waits while another open
\* transaction holds the row deleted; then deletes the row if it is committed.
TxDeleteRow(s) ==
    /\ tx[s].pc = "logged"
    /\ ~ \E t \in Sessions \ {s} :
            /\ tx[t].pc = "deleted" /\ tx[t].found
            /\ tx[t].record_type = tx[s].record_type /\ tx[t].id = tx[s].id
    /\ tx' = [tx EXCEPT ![s].pc = "deleted",
                        ![s].found = \E r \in TableOf(tx[s].record_type) :
                                         r.id = tx[s].id]
    /\ last' = StoreRun("delete_with_reason", "delete")
    /\ UNCHANGED <<ledgerTables, seq, users, session, reg, created>>

\* The with block ends normally: COMMIT.
TxCommit(s) ==
    /\ tx[s].pc = "deleted"
    /\ deletion_logs' = deletion_logs \cup tx[s].log
    /\ contributions' = IF tx[s].record_type = "contribution"
                        THEN RowsAfterDelete(contributions, tx[s].id)
                        ELSE contributions
    /\ special_contributions' = IF tx[s].record_type = "special_contribution"
                                THEN RowsAfterDelete(special_contributions, tx[s].id)
                                ELSE special_contributions
    /\ project_income' = IF tx[s].record_type = "project_income"
                         THEN RowsAfterDelete(project_income, tx[s].id)
                         ELSE project_income
    /\ tx' = [tx EXCEPT ![s] = IdleTx]
    /\ last' = StoreRun("delete_with_reason", "commit")
    /\ UNCHANGED <<special_projects, seq, users, session, reg, created>>

\* An exception leaves the with block (a failed statement, a lost connection):
\* ROLLBACK, and the exception goes to the caller.
TxFail(s) ==
    /\ tx[s].pc \in {"begun", "logged", "deleted"}
    /\ tx' = [tx EXCEPT ![s] = IdleTx]
    /\ last' = StoreRun("delete_with_reason", "rollback")
    /\ UNCHANGED <<ledgerTables, seq, users, session, reg, created>>

\* The add_* functions are single-statement transactions.
TxAdd ==
    /\ \/ add_contribution("Alice", ScaledAmount(1200), "Jan")
       \/ create_special_project("Hall", "", ScaledAmount(1200), "2025-01-31")
       \/ add_special_project_contribution(1, "Carol", ScaledAmount(1200), "")
       \/ add_project_income(1, "Raffle", ScaledAmount(1200), "")
    /\ last' = StoreRun("add", "commit")
    /\ UNCHANGED <<users, session, reg, tx>>

TxInit ==
    /\ EmptyLedger
    /\ users = << [username |-> <<"a">>, name |-> "Ann", password |-> Hash("secret1"),
                   email |-> <<"x">>, role |-> RoleForCount(0)] >>
    /\ session = [authentication_status |-> TRUE, username |-> <<"a">>, name |-> "Ann"]
    /\ reg = [s \in Sessions |-> IdleReg]
    /\ tx = [s \in Sessions |-> IdleTx]
    /\ last = StoreRun("none", "none")

\* The ids handed to the delete calls: the first row of a table, before it is
\* inserted, while it is there and after it is gone.
DeleteIdInputs == {1}

TxNext ==
    \/ TxAdd
    \/ \E s \in Sessions, rt \in RecordTypes, id \in DeleteIdInputs :
          TxBegin(s, rt, id, session.username, <<"d", "u", "p">>)
    \/ \E s \in Sessions : TxInsertLog(s)
    \/ \E s \in Sessions : TxDeleteRow(s)
    \/ \E s \in Sessions : TxCommit(s)
    \/ \E s \in Sessions : TxFail(s)

TxSpec == TxInit /\ [][TxNext]_vars

(***************************************************************************)
(* Properties.                                                             *)
(***************************************************************************)
DeleteOps == {"delete_contribution", "delete_special_contribution",
              "delete_project_income"}
AddOps == {"add_contribution", "create_project", "add_special_contribution",
           "add_project_income"}

\* The record_type literal and the table of each delete operation.
RecordTypeOfOp(op) ==
    CASE op = "delete_contribution" -> "contribution"
      [] op = "delete_special_contribution" -> "special_contribution"
      [] op = "delete_project_income" -> "project_income"

HasId(table, id) == \E r \in table : r.id = id

\* C1: a delete-with-reason call on the id of an existing record leaves exactly
\* one more deletion-log entry, carrying the operation's record_type literal, the
\* record id, the caller's name and the reason, and the record is gone from its
\* table.
C1_DeleteLogsOnceAndRemoves ==
    [][ \A rt \in RecordTypes, id \in 1..(MaxInserts + 1) :
          (last'.op \in DeleteOps /\ last'.outcome = "deleted"
           /\ rt = RecordTypeOfOp(last'.op) /\ id = last'.id
           /\ HasId(TableOf(rt), id))
          => /\ deletion_logs \subseteq deletion_logs'
             /\ Cardinality(deletion_logs') = Cardinality(deletion_logs) + 1
             /\ \A l \in deletion_logs' \ deletion_logs :
                   /\ l.record_type = rt
                   /\ l.record_id = id
                   /\ l.deleted_by = session.username
                   /\ l.reason = last'.reason
             /\ ~ HasId(TableOf(rt)', id)
      ]_vars

C1_Witness ==
    /\ last.op = "delete_special_contribution"
    /\ last.outcome = "deleted"
    /\ <<"special_contribution", last.id>> \in created
    /\ \E l \in deletion_logs : l.record_id = last.id

C3_NoRemovalWithoutAudit ==
    \A c \in created :
        ~ HasId(TableOf(c[1]), c[2])
        => \E l \in deletion_logs : l.record_type = c[1] /\ l.record_id = c[2]

C3_Witness ==
    \E c \in created : c[1] = "project_income" /\ ~ HasId(project_income, c[2])

\* C4: starting from an empty credential store, the first successful
\* registration stores role admin and every later one stores role viewer.
C4_FirstAdminRestViewer ==
    \A i \in DOMAIN users : users[i].role = IF i = 1 THEN "admin" ELSE "viewer"

C4_Witness == Len(users) >= 3 /\ users[3].role = "viewer"

\* Empty or made of whitespace only.
IsBlank(text) == \A i \in 1..Len(text) : text[i] \in {" ", "\t", "\n"}

\* C5: a delete attempt from any of the three delete controls with an empty or
\* whitespace-only reason is rejected before the store is called (no log entry,
\* no record removed), and no deletion-log entry has such a reason.
C5_BlankReasonRejected ==
    [][ /\ (last'.op \in DeleteOps /\ IsBlank(last'.reason))
           => (last'.outcome = "rejected" /\ UNCHANGED <<ledgerTables, seq>>)
        /\ \A l \in deletion_logs' : ~ IsBlank(l.reason)
      ]_vars

C5_Witness ==
    /\ last.op = "delete_project_income"
    /\ last.outcome = "rejected"
    /\ last.reason = <<" ", "\t">>
    /\ project_income # {}

\* C6: registering a username that is already in the users table fails and
\* leaves the table as it was, whether the duplicate is caught by user_exists
\* (the submit goes no further) or only by the primary key (save_user_to_db
\* returns False).
C6_DuplicateUsernameRejected ==
    /\ \A u \in UsernameInputs, e \in RegisterEmails, pw \in RegisterPasswords :
          (\E i \in DOMAIN users : users[i].username = u)
          => RegisterSubmitMessage(u, "Ann", e, pw[1], pw[2]) # "hashed"
    /\ \A s \in Sessions :
          (reg[s].pc = "save" /\ \E i \in DOMAIN users : users[i].username = reg[s].username)
          => /\ UsersAfterSave(reg[s].username, reg[s].name, reg[s].hashed,
                               reg[s].email) = users
             /\ RegisterSaveMessage(reg[s].username) = "registration failed"

\* The duplicate was caught by the primary key only.
C6_Witness ==
    /\ last.op = "register"
    /\ last.outcome = "registration failed"
    /\ users # <<>>

\* Equal up to letter case.
SameIgnoringCase(a, b) ==
    /\ Len(a) = Len(b)
    /\ \A i \in 1..Len(a) :
          \/ a[i] = b[i]
          \/ {a[i], b[i]} \in {{"a", "A"}, {"b", "B"}, {"x", "X"}, {"y", "Y"}}

PairMatches(username, email) ==
    \E i \in DOMAIN users : /\ SameIgnoringCase(users[i].username, username)
                            /\ SameIgnoringCase(users[i].email, email)

\* C7: reset_password succeeds only if username and email, compared without
\* regard to case, both match one user record; when no record matches the pair
\* no password hash changes.
C7_ResetNeedsMatchingPair ==
    \A u \in UsernameInputs, e \in ResetEmails, pw \in ResetPasswords :
        LET after == UsersAfterReset(u, e, pw[1], pw[2])
        IN  /\ ResetMessage(u, e, pw[1], pw[2]) = "password updated"
               => PairMatches(u, e)
            /\ ~ PairMatches(u, e)
               => /\ Len(after) = Len(users)
                  /\ \A i \in DOMAIN users : after[i].password = users[i].password

C7_Witness ==
    /\ last.op = "reset"
    /\ last.outcome = "password updated"
    /\ \E i \in DOMAIN users : users[i].password = Hash("secret2")
    /\ \E i \in DOMAIN users : users[i].password = Hash("secret1")

\* C8: no add reaches the store with a non-positive raw amount or an empty
\* required text field: such a submission is rejected on every input surface,
\* and no persisted row has an amount <= 0.
C8_InvalidAddRejected ==
    /\ (last.op \in AddOps /\ (last.raw <= 0 \/ "" \in last.texts))
       => last.outcome = "rejected"
    /\ \A r \in contributions \cup special_contributions \cup project_income :
          r.amount > 0
    /\ \A p \in special_projects : p.target_amount > 0

\* amount (cents) is raw / 120 (cents) rounded to a nearest cent.
NearestCent(raw, amount) ==
    /\ 2 * (120 * amount - raw) <= 120
    /\ 2 * (raw - 120 * amount) <= 120

StoredAmounts(op, id) ==
    CASE op = "add_contribution" -> {r.amount : r \in {x \in contributions : x.id = id}}
      [] op = "create_project" ->
            {r.target_amount : r \in {x \in special_projects : x.id = id}}
      [] op = "add_special_contribution" ->
            {r.amount : r \in {x \in special_contributions : x.id = id}}
      [] op = "add_project_income" ->
            {r.amount : r \in {x \in project_income : x.id = id}}

\* C9: for every raw amount accepted on an input surface, the amount handed to
\* the store and persisted is the raw amount divided by 120 and rounded to two
\* decimals.
C9_StoredAmountIsScaled ==
    (last.op \in AddOps /\ last.outcome = "stored")
    => /\ NearestCent(last.raw, last.amount)
       /\ StoredAmounts(last.op, last.id) = {last.amount}

C9_Witness ==
    /\ last.op = "add_project_income"
    /\ last.outcome = "stored"
    /\ last.raw = 1200
    /\ \E r \in project_income : r.id = last.id /\ r.amount = 10

\* The sum of amount over the rows of a project, row id by row id.
RECURSIVE SumByIds(_, _, _)
SumByIds(table, project_id, n) ==
    IF n = 0 THEN 0
    ELSE LET hit == {r \in table : r.id = n /\ r.project_id = project_id}
         IN  (IF hit = {} THEN 0 ELSE (CHOOSE r \in hit : TRUE).amount)
             + SumByIds(table, project_id, n - 1)

\* C10: for every project id, get_project_financial_summary returns the sum of
\* that project's special contributions, the sum of that project's income and
\* their total; other projects' rows do not count and no rows give 0, 0, 0.
C10_SummaryIsPerProjectSum ==
    \A pid \in 0..(MaxInserts + 1) :
        LET summary == get_project_financial_summary(pid)
            c == SumByIds(special_contributions, pid, seq["special_contributions"])
            i == SumByIds(project_income, pid, seq["project_income"])
        IN  /\ summary.contributions = c
            /\ summary.income = i
            /\ summary.total = c + i
            /\ DOMAIN summary = {"contributions", "income", "total"}

\* Two projects, one with money and one with no rows at all.
C10_Witness ==
    \E p \in special_projects, q \in special_projects :
        /\ p.id # q.id
        /\ get_project_financial_summary(p.id).total > 0
        /\ get_special_project_contributions(q.id) = {}
        /\ get_project_income(q.id) = {}
        /\ get_project_financial_summary(q.id) =
              [contributions |-> 0, income |-> 0, total |-> 0]

\* The sum of amount over the rows of one member in one month, row id by row id.
RECURSIVE SumOfMonthAndMember(_, _, _, _)
SumOfMonthAndMember(table, month, member, n) ==
    IF n = 0 THEN 0
    ELSE LET hit == {r \in table : r.id = n /\ r.month = month /\ r.member = member}
         IN  (IF hit = {} THEN 0 ELSE (CHOOSE r \in hit : TRUE).amount)
             + SumOfMonthAndMember(table, month, member, n - 1)

\* C11: the monthly shortfall check flags exactly the (month, member) groups of
\* the fetched contributions whose summed amount is strictly less than 1000/120
\* (2500/3 cents), each with the sum of that month and member only: a group at
\* or above the threshold is never flagged, a group below it always is, and
\* amounts of one member in different months are never added together.
C11_ShortfallFlagsGroupsBelowExpected ==
    LET df == get_all_contributions
        flagged == warnings(df)
    IN  \A mo \in ShortfallMonths, m \in ShortfallMembers :
            LET total == SumOfMonthAndMember(df, mo, m, seq["contributions"])
                present == \E r \in df : r.month = mo /\ r.member = m
                hits == {w \in flagged : w.member = m /\ w.month = mo}
            IN  IF present /\ 3 * total < 2500
                THEN hits = {[member |-> m, amount |-> total, month |-> mo]}
                ELSE hits = {}

\* One member has two rows in Jan adding up to 8.34 (not flagged) and one row of
\* 4.16 in Feb, which is flagged although the member's amounts over both months
\* exceed the expected amount.
C11_Witness ==
    LET df == get_all_contributions
    IN  \E m \in ShortfallMembers :
            /\ Cardinality({r \in df : r.member = m /\ r.month = "Jan"}) = 2
            /\ SumAmount({r \in df : r.member = m /\ r.month = "Jan"}) = 834
            /\ ~ \E w \in warnings(df) : w.member = m /\ w.month = "Jan"
            /\ [member |-> m, amount |-> 416, month |-> "Feb"] \in warnings(df)

\* C12: a user's role is fixed at registration: no step of the registration
\* and reset forms removes a row of the users table, renames it or changes its
\* role (the ledger handlers do not touch the users table at all).
C12_RoleFixedAtRegistration ==
    [][ /\ Len(users') >= Len(users)
        /\ \A i \in DOMAIN users :
              /\ users'[i].username = users[i].username
              /\ users'[i].role = users[i].role
      ]_vars

\* The admin's password was reset after a second user had registered.
C12_Witness ==
    /\ last.op = "reset"
    /\ last.outcome = "password updated"
    /\ Len(users) >= 2
    /\ users[1].role = "admin"
    /\ users[1].password = Hash("secret2")
    /\ users[2].role = "viewer"

\* C13: for every registered user, get_user_role of that user's username
\* returns the role stored in the user's own record (so a user registered as
\* viewer is never given admin), also when usernames differ only by letter
\* case; get_user_role returns None only for a username matching no record.
C13_RoleOfOwnRecord ==
    /\ \A i \in DOMAIN users : get_user_role(users[i].username) = users[i].role
    /\ \A u \in UsernameInputs :
          get_user_role(u) = "None"
          => ~ \E i \in DOMAIN users : SameIgnoringCase(users[i].username, u)

\* C14: when registrations run concurrently on an empty credential store, the
\* count read and the insert of each save_user_to_db being separate steps, at
\* most one user has role admin in every reachable state.
C14_AtMostOneAdmin ==
    Cardinality({i \in DOMAIN users : users[i].role = "admin"}) <= 1

\* C15: a successful reset_password(username, email, new_password) replaces the
\* password hash of the user records matching the supplied (username, email)
\* pair and of no other: every other user's hash -- also that of a user whose
\* username differs from the supplied one only by letter case and whose email
\* does not match -- is unchanged, as are all usernames, display names, emails
\* and roles.
C15_ResetChangesOnlyMatchedUser ==
    \A u \in UsernameInputs, e \in ResetEmails, pw \in ResetPasswords :
        ResetMessage(u, e, pw[1], pw[2]) = "password updated"
        => LET after == UsersAfterReset(u, e, pw[1], pw[2])
           IN  /\ Len(after) = Len(users)
               /\ \A i \in DOMAIN users :
                     /\ after[i].username = users[i].username
                     /\ after[i].name = users[i].name
                     /\ after[i].email = users[i].email
                     /\ after[i].role = users[i].role
                     /\ after[i].password =
                           IF /\ SameIgnoringCase(users[i].username, u)
                              /\ SameIgnoringCase(users[i].email, e)
                           THEN Hash(pw[1])
                           ELSE users[i].password

\* C16: every deletion-log entry records a deletion that happened: in every
\* state reached by delete calls -- two sessions deleting the same entry and a
\* call for an id that is not in the table included -- each (record_type,
\* record_id) pair is in at most one entry, and only if such a record was ever
\* there to delete.
C16_LogEntryIsARealDeletion ==
    \A l \in deletion_logs :
        /\ <<l.record_type, l.record_id>> \in created
        /\ \A k \in deletion_logs :
              (k.record_type = l.record_type /\ k.record_id = l.record_id) => k = l

====
